---- MODULE Spec2Model ----
(***************************************************************************)
(* TeleTextPlus (src/app.py): the Flask webhook receiver of a Telegram bot *)
(* with Telegram Stars payments.                                           *)
(*                                                                         *)
(* The model follows one /webhook request handler through its blocking     *)
(* points, the detached threads started by send_async, the wall clock read *)
(* by time.time(), and the /get_invoice handler.  JSON objects are TLA+    *)
(* functions whose domain is the set of keys present, so that the code's   *)
(* "key in dict" tests and its KeyError paths are modelled as written.     *)
(* Strings are sequences of symbols; a command word is one symbol and " "  *)
(* is a blank.                                                             *)
(***************************************************************************)
EXTENDS Integers, Sequences, FiniteSets, TLC

VARIABLES
    now,          \* time.time(), in ticks
    user_cache,   \* _user_cache: user id -> [name, last_seen]
    wpc,          \* position of the /webhook handler
    update,       \* the request body the /webhook handler works on
    wresp,        \* the HTTP response of the /webhook handler
    calls,        \* outbound HTTP calls issued for the current event, in order
    threads,      \* the live send_async threads
    spawned,      \* send_message_async submissions of the current event
    logs,         \* logger lines of the current event
    cached,       \* cache_user was called for the current event
    gpc,          \* position of the /get_invoice handler
    gdata,        \* the request body the /get_invoice handler works on
    gresp,        \* the HTTP response of the /get_invoice handler
    gcalls,       \* outbound HTTP calls issued by /get_invoice, in order
    greq          \* number of /get_invoice requests received

vars == <<now, user_cache, wpc, update, wresp, calls, threads, spawned, logs,
          cached, gpc, gdata, gresp, gcalls, greq>>

wvars == <<wpc, update, wresp, calls, threads, spawned, logs, cached, user_cache>>
gvars == <<gpc, gdata, gresp, gcalls, greq>>

----------------------------------------------------------------------------
(* Bounds of the model *)

\* the clock runs from tick 0 to tick MaxTime
MaxTime == 2
\* clock ticks per second: int(time.time()) is the tick divided by it
TicksPerSec == 2
\* threads of earlier events that may still be alive when an event arrives
MaxStale == 0
\* /get_invoice requests in one behaviour
MaxInvoices == 2

----------------------------------------------------------------------------
(* JSON values *)

\* Python's None, where a string may stand
None == "None"
\* no request in hand, no response given yet
NoRequest == [kind |-> "none"]
NoResponse == [status |-> 0]
EmptyObj == [k \in {} |-> TRUE]
Has(obj, key) == key \in DOMAIN obj
\* dict.get(key, default)
Get(obj, key, default) == IF Has(obj, key) THEN obj[key] ELSE default
\* the objects with the key absent or bound to one of vals
Opt(key, vals) == {EmptyObj} \cup {key :> v : v \in vals}

ChatIds == {10}
UserIds == {1}
QueryIds == {"q1"}
Blank == " "
Texts == {<<>>, <<"/start">>, <<"/help">>, <<"/premium">>, <<"/paysupport">>,
          <<"hi">>, <<Blank, "/start">>, <<"/premium", Blank>>}

Chats == {[id |-> c] : c \in ChatIds}
Senders == {[id |-> u, first_name |-> "Ann"] : u \in UserIds}
PaymentFull == [total_amount |-> 99, currency |-> "XTR",
                telegram_payment_charge_id |-> "ch1"]
PaymentPartial == [currency |-> "XTR"]

\* messages that carry the chat id and the sender id
GoodMessages ==
    {("chat" :> c) @@ ("from" :> f) @@ t @@ p :
        c \in Chats, f \in Senders, t \in Opt("text", Texts),
        p \in Opt("successful_payment", {PaymentFull, PaymentPartial})}
    \cup
    {("chat" :> c) @@ ("from" :> [id |-> u]) @@ t :
        c \in Chats, u \in UserIds, t \in Opt("text", {<<"/start">>})}
\* messages that lack one of them
BadMessages ==
    {c @@ f @@ t @@ p :
        c \in Opt("chat", Chats), f \in Opt("from", Senders \cup {EmptyObj}),
        t \in Opt("text", {<<"/premium">>}),
        p \in Opt("successful_payment", {PaymentFull})}
    \ GoodMessages
FewMessages ==
    {m \in GoodMessages :
        /\ Has(m, "text") /\ m.text \in {<<"/start">>, <<"/premium">>}
        /\ Has(m["from"], "first_name")
        /\ Has(m, "successful_payment") => m.successful_payment = PaymentFull}
PreCheckoutQueries == {EmptyObj} \cup {[id |-> q] : q \in QueryIds}

\* the JSON objects POSTed to /webhook
Updates ==
    Opt("message", GoodMessages \cup BadMessages)
    \cup
    {("pre_checkout_query" :> q) @@ m :
        q \in PreCheckoutQueries \ {EmptyObj}, m \in Opt("message", FewMessages)}
    \cup {[pre_checkout_query |-> EmptyObj]}

\* the request bodies of /webhook: a JSON object, JSON null, or malformed JSON
\* text, on which request.get_json() raises BadRequest
WebhookBodies ==
    {[kind |-> "json", json |-> u] : u \in Updates}
    \cup {[kind |-> "null"], [kind |-> "invalid"]}

----------------------------------------------------------------------------
(* Outcomes of an outbound HTTP call:                                      *)
(*   ok        the platform answered {"ok": true}                          *)
(*   rejected  the platform answered {"ok": false, "description": ...}     *)
(*   error     requests.post or response.json() raised                     *)
Outcomes == {"ok", "rejected", "error"}

\* an outbound call: its method, the thread that issues it, the chat or query
\* it is aimed at, what it carries, when it was issued, and how it ended
Call(api, thread, target, payload, t) ==
    [api |-> api, thread |-> thread, target |-> target, payload |-> payload,
     at |-> t, status |-> "inflight"]

SetStatus(log, i, outcome) == [log EXCEPT ![i].status = outcome]

----------------------------------------------------------------------------
(* time *)

\* int(time.time())
IntTime(t) == t \div TicksPerSec

Tick ==
    /\ now < MaxTime
    /\ now' = now + 1
    /\ UNCHANGED <<wvars, gvars>>

----------------------------------------------------------------------------
(* send_async / send_message_async / send_telegram_message *)

\* send_message_async(chat_id, text): the wrapper starts a daemon thread and
\* returns None at once
Thread(chat_id, text) ==
    [chat_id |-> chat_id, text |-> text, state |-> "started", cur |-> TRUE,
     call |-> 0]

send_message_async(ths, chat_id, text) == Append(ths, Thread(chat_id, text))

RemoveAt(s, i) == [j \in 1..(Len(s) - 1) |-> IF j < i THEN s[j] ELSE s[j + 1]]

\* the thread reaches requests.post of send_telegram_message
send_telegram_message_post(i) ==
    /\ i \in DOMAIN threads
    /\ threads[i].state = "started"
    /\ IF threads[i].cur
         THEN /\ calls' = Append(calls, Call("sendMessage", "thread",
                                             threads[i].chat_id, threads[i].text,
                                             now))
              /\ threads' = [threads EXCEPT ![i].state = "posting",
                                            ![i].call = Len(calls) + 1]
         ELSE /\ calls' = calls
              /\ threads' = [threads EXCEPT ![i].state = "posting"]
    /\ UNCHANGED <<now, user_cache, wpc, update, wresp, spawned, logs, cached,
                   gvars>>

\* mutant: a send that raised is tried again by its thread
send_telegram_message_done_Retry(i, outcome) ==
    /\ i \in DOMAIN threads
    /\ threads[i].state = "posting"
    /\ calls' = IF threads[i].cur
                  THEN SetStatus(calls, threads[i].call, outcome)
                  ELSE calls
    /\ logs' = IF threads[i].cur /\ outcome = "error"
                 THEN logs \cup {"Send message error"}
                 ELSE logs
    /\ threads' = IF outcome = "error" /\ threads[i].cur /\ threads[i].call = 1
                    THEN [threads EXCEPT ![i].state = "started"]
                    ELSE RemoveAt(threads, i)
    /\ UNCHANGED <<now, user_cache, wpc, update, wresp, spawned, cached, gvars>>

\* requests.post returns or raises; send_telegram_message returns True or
\* (after logging) False, the thread ends and nobody reads the value
send_telegram_message_done(i, outcome) ==
    /\ i \in DOMAIN threads
    /\ threads[i].state = "posting"
    /\ calls' = IF threads[i].cur
                  THEN SetStatus(calls, threads[i].call, outcome)
                  ELSE calls
    /\ logs' = IF threads[i].cur /\ outcome = "error"
                 THEN logs \cup {"Send message error"}
                 ELSE logs
    /\ threads' = RemoveAt(threads, i)
    /\ UNCHANGED <<now, user_cache, wpc, update, wresp, spawned, cached, gvars>>

----------------------------------------------------------------------------
(* cache_user *)

cache_user(cache, user_id, user_name, t) ==
    (user_id :> [name |-> user_name, last_seen |-> t]) @@ cache

----------------------------------------------------------------------------
(* POST /webhook *)

\* mutant: the handler answers an update it served with 400
OkResponse_400 == [status |-> 400, ok |-> FALSE]
\* jsonify({'ok': True}), 200 at the end of the try block and of the
\* pre-checkout branch
OkResponse == [status |-> 200, ok |-> TRUE]
\* mutant: the except clause reports the failure to the transport
ExceptResponse_500 == [status |-> 500, ok |-> FALSE]
\* the response of the except clause
ExceptResponse == [status |-> 200, ok |-> TRUE]

\* the request arrives; the threads of earlier events live on
Receive(body) ==
    /\ wpc \in {"idle", "done"}
    /\ Len(threads) <= MaxStale
    /\ wpc' = "priority1"
    /\ update' = body
    /\ wresp' = NoResponse
    /\ calls' = <<>>
    /\ spawned' = <<>>
    /\ logs' = {}
    /\ cached' = FALSE
    /\ threads' = [i \in DOMAIN threads |->
                     [threads[i] EXCEPT !.cur = FALSE, !.call = 0]]
    /\ UNCHANGED <<now, user_cache, gvars>>

\* mutant: the exception leaves the handler and the framework answers 500
WebhookExcept_Propagates ==
    /\ wresp' = [status |-> 500, ok |-> FALSE]
    /\ logs' = logs \cup {"CRITICAL WEBHOOK ERROR"}
    /\ wpc' = "done"

\* except Exception as e: logger.exception(...); return jsonify({'ok': True}), 200
WebhookExcept ==
    /\ wresp' = ExceptResponse
    /\ logs' = logs \cup {"CRITICAL WEBHOOK ERROR"}
    /\ wpc' = "done"

\* request.get_json() raises on a body that is no JSON; on JSON null it
\* returns None and "'pre_checkout_query' in update" raises TypeError
GetJsonRaises(body) == body.kind = "invalid"
NotADict(body) == body.kind = "null"

\* mutant: the message test comes before the pre-checkout test
FirstBranch_MessageFirst(upd) ==
    IF Has(upd, "message") THEN "priority2"
    ELSE IF Has(upd, "pre_checkout_query") THEN "pre_checkout" ELSE "priority2"
\* the branch the handler enters first
FirstBranch(upd) ==
    IF Has(upd, "pre_checkout_query") THEN "pre_checkout" ELSE "priority2"

\* mutant: the answer is left to run on its own and the handler returns
Priority1_NoWait ==
    /\ wpc = "priority1"
    /\ IF GetJsonRaises(update) \/ NotADict(update)
         THEN /\ WebhookExcept
              /\ UNCHANGED <<calls>>
         ELSE IF FirstBranch(update.json) = "pre_checkout"
         THEN LET query == update.json.pre_checkout_query IN
              IF ~Has(query, "id")
                THEN /\ WebhookExcept
                     /\ UNCHANGED <<calls>>
                ELSE /\ calls' = Append(calls,
                            Call("answerPreCheckoutQuery", "handler", query.id,
                                 [ok |-> TRUE], now))
                     /\ logs' = logs \cup {"PRE-CHECKOUT QUERY RECEIVED"}
                     /\ wresp' = OkResponse
                     /\ wpc' = "done"
         ELSE /\ wpc' = "priority2"
              /\ UNCHANGED <<calls, logs, wresp>>
    /\ UNCHANGED <<now, user_cache, update, threads, spawned, cached, gvars>>

\* lines 205-213: up to the requests.post of answer_pre_checkout_query
Priority1 ==
    /\ wpc = "priority1"
    /\ IF GetJsonRaises(update) \/ NotADict(update)
         THEN /\ WebhookExcept
              /\ UNCHANGED <<calls>>
         ELSE IF FirstBranch(update.json) = "pre_checkout"
         THEN LET query == update.json.pre_checkout_query IN
              IF ~Has(query, "id")
                THEN /\ WebhookExcept
                     /\ UNCHANGED <<calls>>
                ELSE /\ calls' = Append(calls,
                            Call("answerPreCheckoutQuery", "handler", query.id,
                                 [ok |-> TRUE], now))
                     /\ logs' = logs \cup {"PRE-CHECKOUT QUERY RECEIVED"}
                     /\ wpc' = "answering"
                     /\ UNCHANGED <<wresp>>
         ELSE /\ wpc' = "priority2"
              /\ UNCHANGED <<calls, logs, wresp>>
    /\ UNCHANGED <<now, user_cache, update, threads, spawned, cached, gvars>>

\* what answer_pre_checkout_query returns
AnswerResult(outcome) == outcome = "ok"

\* mutant: a failed answer is tried once more
AnswerReturns_Retry(outcome) ==
    /\ wpc = "answering"
    /\ IF outcome # "ok" /\ Len(calls) = 1
         THEN /\ calls' = Append(SetStatus(calls, Len(calls), outcome),
                                 Call("answerPreCheckoutQuery", "handler",
                                      calls[1].target, [ok |-> TRUE], now))
              /\ UNCHANGED <<logs, wresp, wpc>>
         ELSE /\ calls' = SetStatus(calls, Len(calls), outcome)
              /\ logs' = logs \cup {"Pre-checkout approved"}
              /\ wresp' = OkResponse
              /\ wpc' = "done"
    /\ UNCHANGED <<now, user_cache, update, threads, spawned, cached, gvars>>

\* mutant: answer_pre_checkout_query lets the exception of requests.post
\* through to the handler
AnswerReturns_Raises(outcome) ==
    /\ wpc = "answering"
    /\ calls' = SetStatus(calls, Len(calls), outcome)
    /\ IF outcome = "error"
         THEN WebhookExcept
         ELSE /\ logs' = logs \cup
                   {IF outcome = "ok" THEN "Pre-checkout approved"
                    ELSE "Failed to answer pre-checkout"}
              /\ wresp' = OkResponse
              /\ wpc' = "done"
    /\ UNCHANGED <<now, user_cache, update, threads, spawned, cached, gvars>>

\* mutant: the handler does not return after the answer and goes on to the
\* message branch
AnswerReturns_FallThrough(outcome) ==
    /\ wpc = "answering"
    /\ calls' = SetStatus(calls, Len(calls), outcome)
    /\ logs' = logs \cup
         {CASE outcome = "ok" -> "Pre-checkout approved"
            [] outcome = "rejected" -> "Failed to answer pre-checkout"
            [] OTHER -> "Pre-checkout error"}
    /\ wpc' = "priority2"
    /\ UNCHANGED <<now, user_cache, update, wresp, threads, spawned, cached,
                   gvars>>

\* lines 103-113 and 214: the answer call returns or raises inside
\* answer_pre_checkout_query, which returns True or False; the handler
\* drops the value and returns
AnswerReturns(outcome) ==
    /\ wpc = "answering"
    /\ calls' = SetStatus(calls, Len(calls), outcome)
    /\ logs' = logs \cup
         {CASE outcome = "ok" -> "Pre-checkout approved"
            [] outcome = "rejected" -> "Failed to answer pre-checkout"
            [] OTHER -> "Pre-checkout error"}
    /\ wresp' = OkResponse
    /\ wpc' = "done"
    /\ UNCHANGED <<now, user_cache, update, threads, spawned, cached, gvars>>

\* message.get('text', '')
TextOf(message) == Get(message, "text", <<>>)

\* the if/elif chain of lines 230-333 compares the text as received
Command(text) ==
    CASE text = <<"/start">> -> "start"
      [] text = <<"/help">> -> "help"
      [] text = <<"/premium">> -> "premium"
      [] text = <<"/paysupport">> -> "paysupport"
      [] OTHER -> "other"

\* mutant: /start looks the sender up in the cache and greets a known user
\* differently
Reply_Cached(command, user_name) ==
    CASE command = "start" ->
             IF user_cache # EmptyObj THEN <<"welcome back", user_name>>
             ELSE <<"welcome", user_name>>
      [] command = "help" -> <<"help_text">>
      [] command = "paysupport" -> <<"support_text">>
      [] OTHER -> <<"Thanks for your message!">>
\* the text each branch passes to send_message_async
Reply(command, user_name) ==
    CASE command = "start" -> <<"welcome", user_name>>
      [] command = "help" -> <<"help_text">>
      [] command = "paysupport" -> <<"support_text">>
      [] OTHER -> <<"Thanks for your message!">>
PaymentError == <<"Error initiating payment. Please try again.">>
SuccessMessage == <<"Payment Successful!">>

\* f"premium_weekly_{user_id}_{int(time.time())}"
InvoicePayload(product, user_id, t) == <<product, user_id, IntTime(t)>>

Spawn(chat_id, text) ==
    /\ threads' = send_message_async(threads, chat_id, text)
    /\ spawned' = Append(spawned, [chat_id |-> chat_id, text |-> text])

\* lines 219-222 raise KeyError when the chat id or the sender id is missing
MessageRaises(message) ==
    \/ ~Has(message, "chat")
    \/ ~Has(message.chat, "id")
    \/ ~Has(message, "from")
    \/ ~Has(message["from"], "id")

\* lines 217-333, up to the requests.post of the /premium branch
Priority2 ==
    /\ wpc = "priority2"
    /\ IF ~Has(update.json, "message")
         THEN /\ wpc' = "priority3"
              /\ UNCHANGED <<user_cache, cached, logs, calls, threads, spawned,
                             wresp>>
         ELSE LET message == update.json.message IN
              IF MessageRaises(message)
                THEN /\ WebhookExcept
                     /\ UNCHANGED <<user_cache, cached, calls, threads, spawned>>
                ELSE LET chat_id == message.chat.id
                         text == TextOf(message)
                         user == message["from"]
                         user_id == user.id
                         user_name == Get(user, "first_name", "User")
                     IN  /\ user_cache' = cache_user(user_cache, user_id,
                                                     user_name, now)
                         /\ cached' = TRUE
                         /\ UNCHANGED <<wresp>>
                         /\ IF Command(text) = "premium"
                              THEN /\ calls' = Append(calls,
                                        Call("sendInvoice", "handler", chat_id,
                                             InvoicePayload("premium_weekly",
                                                            user_id, now), now))
                                   /\ logs' = logs \cup {"Message from",
                                                         "Processing /premium"}
                                   /\ wpc' = "invoicing"
                                   /\ UNCHANGED <<threads, spawned>>
                              ELSE /\ Spawn(chat_id,
                                            Reply(Command(text), user_name))
                                   /\ logs' = logs \cup {"Message from"}
                                   /\ wpc' = "priority3"
                                   /\ UNCHANGED <<calls>>
    /\ UNCHANGED <<now, update, gvars>>

\* mutant: the except clause of the /premium branch only logs
PremiumNotices_RejectedOnly(outcome) ==
    IF outcome = "rejected" THEN <<PaymentError>> ELSE <<>>
\* lines 290-297: what the /premium branch sends after the sendInvoice call
PremiumNotices(outcome) ==
    IF outcome = "ok" THEN <<>> ELSE <<PaymentError>>
PremiumLog(outcome) ==
    CASE outcome = "ok" -> "Invoice sent"
      [] outcome = "rejected" -> "Failed to send invoice"
      [] OTHER -> "Error in /premium handler"

\* lines 289-297: the sendInvoice call returns or raises
InvoiceReturns(outcome) ==
    /\ wpc = "invoicing"
    /\ calls' = SetStatus(calls, Len(calls), outcome)
    /\ logs' = logs \cup {PremiumLog(outcome)}
    /\ LET chat_id == update.json.message.chat.id
           notices == PremiumNotices(outcome)
       IN  /\ threads' = threads \o [i \in DOMAIN notices |->
                                       Thread(chat_id, notices[i])]
           /\ spawned' = spawned \o [i \in DOMAIN notices |->
                                       [chat_id |-> chat_id, text |-> notices[i]]]
    /\ wpc' = "priority3"
    /\ UNCHANGED <<now, user_cache, update, wresp, cached, gvars>>

\* lines 338-345 raise KeyError when a field they read is missing
PaymentRaises(message) ==
    \/ MessageRaises(message)
    \/ ~Has(message.successful_payment, "total_amount")
    \/ ~Has(message.successful_payment, "currency")
    \/ ~Has(message.successful_payment, "telegram_payment_charge_id")

\* mutant: the payment branch is an elif of the command chain, entered only
\* by a message without text
HasPayment_Elif(upd) ==
    /\ Has(upd, "message")
    /\ Has(upd.message, "successful_payment")
    /\ ~Has(upd.message, "text")
\* 'message' in update and 'successful_payment' in update['message']
HasPayment(upd) ==
    Has(upd, "message") /\ Has(upd.message, "successful_payment")

\* mutant: the confirmation goes to the sender's id
ConfirmationChat_Sender(message) == message["from"].id
\* line 338 and 364: the chat the confirmation is sent to
ConfirmationChat(message) == message.chat.id

\* lines 335-367
Priority3 ==
    /\ wpc = "priority3"
    /\ IF HasPayment(update.json)
         THEN LET message == update.json.message IN
              IF PaymentRaises(message)
                THEN /\ wresp' = ExceptResponse
                     /\ logs' = logs \cup {"PAYMENT SUCCESSFUL",
                                           "CRITICAL WEBHOOK ERROR"}
                     /\ UNCHANGED <<threads, spawned>>
                ELSE /\ Spawn(ConfirmationChat(message), SuccessMessage)
                     /\ logs' = logs \cup {"PAYMENT SUCCESSFUL",
                                           "Confirmation sent"}
                     /\ wresp' = OkResponse
         ELSE /\ wresp' = OkResponse
              /\ UNCHANGED <<threads, spawned, logs>>
    /\ wpc' = "done"
    /\ UNCHANGED <<now, user_cache, update, calls, cached, gvars>>

----------------------------------------------------------------------------
(* POST /get_invoice *)

\* str.strip(): the string without its leading and trailing blanks
RECURSIVE LStrip(_)
LStrip(s) == IF s # <<>> /\ Head(s) = Blank THEN LStrip(Tail(s)) ELSE s
RECURSIVE RStrip(_)
RStrip(s) ==
    IF s # <<>> /\ s[Len(s)] = Blank THEN RStrip(SubSeq(s, 1, Len(s) - 1)) ELSE s
Strip_Identity(s) == s
Strip(s) == RStrip(LStrip(s))

\* A query string is a sequence of symbols, a blank or a key=value field.
\* The value of the user field is percent-encoded JSON text; QsFields gives
\* each field its key and what json.loads(unquote(value)) makes of the value:
\* an object, another JSON value, or a ValueError.
InvoiceUserIds == {1, 2}
QsFields ==
    ("user=%7B%22id%22%3A1%7D" :> [key |-> "user", kind |-> "object", value |-> [id |-> 1]])
    @@ ("user=%7B%22id%22%3A2%7D" :> [key |-> "user", kind |-> "object", value |-> [id |-> 2]])
    @@ ("user=%7B%7D" :> [key |-> "user", kind |-> "object", value |-> EmptyObj])
    @@ ("user=%5B1%5D" :> [key |-> "user", kind |-> "array", value |-> EmptyObj])
    @@ ("user=%7Bid" :> [key |-> "user", kind |-> "malformed", value |-> EmptyObj])
    @@ ("user=" :> [key |-> "user", kind |-> "blank", value |-> EmptyObj])
    @@ ("hash=abc" :> [key |-> "hash", kind |-> "malformed", value |-> EmptyObj])
InitDatas ==
    {<<>>, <<Blank>>} \cup {<<f>> : f \in DOMAIN QsFields}
    \cup {<<Blank, "user=%7B%22id%22%3A1%7D">>,
          <<"hash=abc", "user=%7B%22id%22%3A1%7D">>}

\* the JSON objects POSTed to /get_invoice
InvoiceDatas ==
    {i @@ pa :
        i \in Opt("initData", InitDatas),
        pa \in {EmptyObj, [product |-> "premium_monthly", amount |-> 250]}}
InvoiceBodies ==
    {[kind |-> "json", json |-> d] : d \in InvoiceDatas}
    \cup {[kind |-> "null"], [kind |-> "invalid"]}

\* parse_qs(init_data): key -> the values of the fields with that key, in
\* order, fields with a blank value dropped
RECURSIVE ParseQs(_)
ParseQs(s) ==
    IF s = <<>> THEN EmptyObj
    ELSE LET rest == ParseQs(Tail(s)) IN
         IF Head(s) = Blank \/ QsFields[Head(s)].kind = "blank" THEN rest
         ELSE LET f == QsFields[Head(s)] IN
              (f.key :> (<<Head(s)>> \o Get(rest, f.key, <<>>))) @@ rest

UserIdOf_Default1(init_data) == 1

\* lines 155-164: the user id of initData; 0 when there is no user field,
\* when json.loads raises, when the value has no .get, or when it has no id
UserIdOf(init_data) ==
    LET user_data == Get(ParseQs(init_data), "user", <<None>>)[1] IN
    IF user_data = None THEN 0
    ELSE IF QsFields[user_data].kind # "object" THEN 0
    ELSE Get(QsFields[user_data].value, "id", 0)

JsonResponse(status, body) == [status |-> status, body |-> body]

GetInvoiceReceive(body) ==
    /\ gpc \in {"idle", "done"}
    /\ greq < MaxInvoices
    /\ greq' = greq + 1
    /\ gpc' = "handling"
    /\ gdata' = body
    /\ gresp' = NoResponse
    /\ UNCHANGED <<now, wvars, gcalls>>

\* lines 140-181: up to the requests.post of createInvoiceLink; get_json
\* raises on a body that is no JSON, "not data" holds of null and of {}
GetInvoiceHandle ==
    /\ gpc = "handling"
    /\ IF gdata.kind = "invalid"
         THEN /\ gresp' = JsonResponse(500, [error |-> "Server error"])
              /\ gpc' = "done"
              /\ UNCHANGED gcalls
         ELSE IF gdata.kind = "null" \/ gdata.json = EmptyObj
         THEN /\ gresp' = JsonResponse(400, [error |-> "No data"])
              /\ gpc' = "done"
              /\ UNCHANGED gcalls
         ELSE LET data == gdata.json
                  init_data == Strip(Get(data, "initData", <<>>))
                  product == Get(data, "product", "premium_weekly")
                  amount == Get(data, "amount", 99)
              IN  IF init_data = <<>>
                    THEN /\ gresp' = JsonResponse(400, [error |-> "Missing initData"])
                         /\ gpc' = "done"
                         /\ UNCHANGED gcalls
                    ELSE /\ gcalls' = Append(gcalls,
                              [Call("createInvoiceLink", "handler", amount,
                                    InvoicePayload(product, UserIdOf(init_data),
                                                   now), now)
                               EXCEPT !.thread = greq])
                         /\ gpc' = "creating"
                         /\ UNCHANGED gresp
    /\ UNCHANGED <<now, wvars, gdata, greq>>

InvoiceResponse_Always200(outcome) ==
    JsonResponse(200, [invoice_url |-> "https://t.me/$invoice"])

\* lines 181-195: the createInvoiceLink call returns or raises
InvoiceResponse(outcome) ==
    CASE outcome = "ok" -> JsonResponse(200, [invoice_url |-> "https://t.me/$invoice"])
      [] outcome = "rejected" -> JsonResponse(400, [error |-> "description"])
      [] OTHER -> JsonResponse(500, [error |-> "Server error"])

CreateReturns(outcome) ==
    /\ gpc = "creating"
    /\ gcalls' = SetStatus(gcalls, Len(gcalls), outcome)
    /\ gresp' = InvoiceResponse(outcome)
    /\ gpc' = "done"
    /\ UNCHANGED <<now, wvars, gdata, greq>>

----------------------------------------------------------------------------
(* The /webhook specification: events arrive one after the other, threads  *)
(* and the clock run on their own.                                         *)

Init ==
    /\ now = 0
    /\ user_cache = EmptyObj
    /\ wpc = "idle"
    /\ update = NoRequest
    /\ wresp = NoResponse
    /\ calls = <<>>
    /\ threads = <<>>
    /\ spawned = <<>>
    /\ logs = {}
    /\ cached = FALSE
    /\ gpc = "idle"
    /\ gdata = NoRequest
    /\ gresp = NoResponse
    /\ gcalls = <<>>
    /\ greq = 0

ThreadStep ==
    \E i \in DOMAIN threads :
        \/ send_telegram_message_post(i)
        \/ \E outcome \in Outcomes : send_telegram_message_done(i, outcome)

Next ==
    \/ \E body \in WebhookBodies : Receive(body)
    \/ Priority1
    \/ \E outcome \in Outcomes : AnswerReturns(outcome)
    \/ Priority2
    \/ \E outcome \in Outcomes : InvoiceReturns(outcome)
    \/ Priority3
    \/ ThreadStep
    \/ Tick

Spec == Init /\ [][Next]_vars

----------------------------------------------------------------------------
(* The /get_invoice specification: requests arrive one after the other     *)
(* while the clock runs.                                                   *)

NextInvoice ==
    \/ \E body \in InvoiceBodies : GetInvoiceReceive(body)
    \/ GetInvoiceHandle
    \/ \E outcome \in Outcomes : CreateReturns(outcome)
    \/ Tick

SpecInvoice == Init /\ [][NextInvoice]_vars

----------------------------------------------------------------------------
(* The /webhook specification with restarts: the cache lives in the        *)
(* process, so a restart between two events empties it (line 48 runs       *)
(* again) while the platform goes on delivering events.                    *)

Restart ==
    /\ wpc \in {"idle", "done"}
    /\ threads = <<>>
    /\ user_cache # EmptyObj
    /\ user_cache' = EmptyObj
    /\ UNCHANGED <<now, wpc, update, wresp, calls, threads, spawned, logs,
                   cached, gvars>>

NextCache == Next \/ Restart

SpecCache == Init /\ [][NextCache]_vars

----------------------------------------------------------------------------
(* What the claims speak of *)

IsJson == update.kind = "json"
HasPcq == IsJson /\ Has(update.json, "pre_checkout_query")
HasMessage == IsJson /\ Has(update.json, "message")
Returned == wpc = "done"
Success == [status |-> 200, ok |-> TRUE]

CallsTo(api) == {i \in DOMAIN calls : calls[i].api = api}
AnswerCalls == CallsTo("answerPreCheckoutQuery")
\* the approval call is in the log
Approved ==
    \E i \in AnswerCalls : calls[i].payload = [ok |-> TRUE]
\* this step runs a step of the message branch or of the payment branch:
\* a cache update, a send_message_async, a sendMessage or a sendInvoice
BranchStep ==
    \/ cached' /\ ~cached
    \/ Len(spawned') > Len(spawned)
    \/ /\ Len(calls') > Len(calls)
       /\ calls'[Len(calls')].api \in {"sendMessage", "sendInvoice"}

----------------------------------------------------------------------------
(* C1: POST /webhook answers 200 with ok=true for every envelope and every *)
(* outcome of its steps: whenever the handler has returned its response is *)
(* the success acknowledgment, and it gives no other response before.      *)
C1_AlwaysSuccess ==
    /\ Returned => wresp = Success
    /\ ~Returned => wresp = NoResponse

\* the handler has returned from its except clause
C1_Witness ==
    /\ Returned
    /\ "CRITICAL WEBHOOK ERROR" \in logs
    /\ wresp = Success

(* C2: for an envelope with a pre-checkout query, no step of the message   *)
(* or payment branch runs unless the approval call was issued before it,   *)
(* and the handler returns success whatever the outcome of that call.      *)
C2_ApprovalFirst ==
    /\ [][(HasPcq /\ update' = update /\ BranchStep) => Approved]_vars
    /\ [](HasPcq /\ Returned => wresp = Success)

\* an envelope with a pre-checkout query and a message: the approval call
\* failed and the handler returned success
C2_Witness ==
    /\ HasPcq /\ HasMessage /\ Returned
    /\ \E i \in AnswerCalls : calls[i].status = "error"
    /\ wresp = Success

(* C3 as stated: every envelope that contains a pre-checkout query has     *)
(* produced exactly one answerPreCheckoutQuery call when the handler       *)
(* returns.                                                                *)
C3_Original ==
    (HasPcq /\ Returned) => Cardinality(AnswerCalls) = 1

(* C3 amended: every envelope that contains a pre-checkout query with an   *)
(* id has produced exactly one answerPreCheckoutQuery call when the        *)
(* handler returns, and never more than one before.                        *)
C3_ExactlyOneAnswer ==
    (HasPcq /\ Has(update.json.pre_checkout_query, "id")) =>
        /\ Cardinality(AnswerCalls) <= 1
        /\ Returned => Cardinality(AnswerCalls) = 1

\* the handler returned after a rejected answer, one call in the log
C3_Witness ==
    /\ HasPcq /\ Returned
    /\ Cardinality(AnswerCalls) = 1
    /\ \E i \in AnswerCalls : calls[i].status = "rejected"

(* C4: the pre-checkout answer is synchronous: the call is issued by the   *)
(* handler's own thread, while it is in flight the handler is blocked in   *)
(* it and has given no response, and when the handler of a query with an   *)
(* id has returned the call has completed or failed.                       *)
C4_AnswerSynchronous ==
    /\ \A i \in AnswerCalls :
        /\ calls[i].thread = "handler"
        /\ calls[i].status = "inflight" =>
              wpc = "answering" /\ wresp = NoResponse
    /\ (HasPcq /\ Returned /\ Has(update.json.pre_checkout_query, "id")) =>
          \E i \in AnswerCalls : calls[i].status \in Outcomes
    /\ \A i \in DOMAIN calls :
          calls[i].thread = "thread" => calls[i].api = "sendMessage"

\* the answer call is in flight and the handler waits for it
C4_Witness ==
    /\ wpc = "answering"
    /\ \E i \in AnswerCalls : calls[i].status = "inflight"
    /\ wresp = NoResponse

Message == update.json.message
\* the message carries the chat id and the sender id
GoodMessage == HasMessage /\ ~MessageRaises(Message)
\* the message carries a successful_payment record, with the fields read
PaymentPresent == HasMessage /\ Has(Message, "successful_payment")
PaymentComplete == PaymentPresent /\ ~PaymentRaises(Message)
InvoiceCalls == CallsTo("sendInvoice")
SpawnedWith(text) == {i \in DOMAIN spawned : spawned[i].text = text}
Confirmations == SpawnedWith(SuccessMessage)
Notices == SpawnedWith(PaymentError)
\* the message branch has completed or been dispatched: the cache is
\* written and the command's send is submitted or its invoice call is over
MessageBranchRan ==
    /\ cached
    /\ IF Command(TextOf(Message)) = "premium"
         THEN \E i \in InvoiceCalls : calls[i].status \in Outcomes
         ELSE \E i \in DOMAIN spawned : spawned[i].text # SuccessMessage
PaymentBranchRan == Confirmations # {}
\* both branches, each if the fields it reads are present
BranchesRan ==
    /\ GoodMessage => MessageBranchRan
    /\ PaymentComplete => PaymentBranchRan

(* C5 as stated: when the handler returns, each of the message branch and  *)
(* the payment branch whose fields are present in the envelope has         *)
(* completed or been dispatched, also when the envelope carries a          *)
(* pre-checkout query.                                                     *)
C5_Original ==
    (IsJson /\ Returned) => BranchesRan

(* C5 amended: for an envelope that carries no pre-checkout query, each of *)
(* the message branch and the payment branch whose fields are present has  *)
(* completed or been dispatched when the handler returns; for an envelope  *)
(* that carries a pre-checkout query neither branch runs.                  *)
C5_BranchesRun ==
    /\ (IsJson /\ ~HasPcq /\ Returned) => BranchesRan
    /\ HasPcq => ~cached /\ spawned = <<>> /\ InvoiceCalls = {}

\* a message with a command and a payment record: both sends are submitted
C5_Witness ==
    /\ IsJson /\ ~HasPcq /\ GoodMessage /\ PaymentComplete /\ Returned
    /\ TextOf(Message) = <<"/help">>
    /\ Len(spawned) = 2
    /\ MessageBranchRan /\ PaymentBranchRan

(* C6: for an envelope with no recognized fields (no pre_checkout_query    *)
(* and no message) the handler issues no outbound call, submits no send,   *)
(* leaves the cache alone and returns success.                             *)
NoRecognizedFields ==
    \/ update.kind = "null"
    \/ IsJson /\ ~HasPcq /\ ~HasMessage
C6_NoSideEffect ==
    NoRecognizedFields =>
        /\ calls = <<>>
        /\ spawned = <<>>
        /\ ~cached
        /\ Returned => wresp = Success

\* the handler returned success for the empty object
C6_Witness ==
    /\ IsJson /\ update.json = EmptyObj
    /\ Returned /\ wresp = Success
    /\ calls = <<>> /\ ~cached

PremiumMessage == GoodMessage /\ TextOf(Message) = <<"/premium">>
\* what C7 asks of a /premium message once its branch is over
PremiumOutcome ==
    /\ Cardinality(InvoiceCalls) = 1
    /\ \A i \in InvoiceCalls :
        /\ calls[i].status \in Outcomes
        /\ calls[i].status = "ok" => Notices = {} /\ "Invoice sent" \in logs
        /\ calls[i].status # "ok" =>
              Cardinality(Notices) = 1 /\ "Invoice sent" \notin logs
    /\ \A i \in Notices : spawned[i].chat_id = Message.chat.id

(* C7 as stated: a message whose text is /premium has, when the handler    *)
(* returns, exactly one invoice-send attempt and, if that failed, exactly  *)
(* one failure notice, and none with the success log.                      *)
C7_Original ==
    (PremiumMessage /\ Returned) => PremiumOutcome

(* C7 amended: a message whose text is /premium, in an envelope that       *)
(* carries no pre-checkout query, results in exactly one invoice-send      *)
(* attempt and, on its failure, exactly one failure notice to the          *)
(* requesting chat: never two attempts or notices, never a notice with the *)
(* success log, and no exception leaves the branch.                        *)
C7_Premium ==
    (PremiumMessage /\ ~HasPcq) =>
        /\ Cardinality(InvoiceCalls) <= 1
        /\ Cardinality(Notices) <= 1
        /\ ~("Invoice sent" \in logs /\ Notices # {})
        /\ \A i \in InvoiceCalls :
              calls[i].thread = "handler" /\ calls[i].target = Message.chat.id
        /\ wpc \in {"priority3", "done"} => PremiumOutcome
        /\ (Returned /\ "CRITICAL WEBHOOK ERROR" \in logs) =>
              PaymentPresent /\ ~PaymentComplete

\* the invoice call raised and one failure notice was submitted
C7_Witness ==
    /\ PremiumMessage /\ ~HasPcq /\ Returned
    /\ \E i \in InvoiceCalls : calls[i].status = "error"
    /\ Cardinality(Notices) = 1
    /\ "Invoice sent" \notin logs

\* one confirmation, to the chat of the message
OneConfirmation ==
    /\ Cardinality(Confirmations) = 1
    /\ \A i \in Confirmations : spawned[i].chat_id = Message.chat.id

(* C8 as stated: a successful_payment record nested in a message has       *)
(* triggered exactly one confirmation to the originating chat when the     *)
(* handler returns.                                                        *)
C8_Original ==
    (PaymentComplete /\ Returned) => OneConfirmation

(* C8 amended: a successful_payment record nested in the message of an     *)
(* envelope that carries no pre-checkout query triggers exactly one        *)
(* confirmation to the originating chat, whatever command branch the text  *)
(* triggers and whatever its outcome.                                      *)
C8_OneConfirmation ==
    (PaymentComplete /\ ~HasPcq) =>
        /\ Cardinality(Confirmations) <= 1
        /\ Returned => OneConfirmation

\* /premium with a payment record: the invoice was rejected, the failure
\* notice and the one confirmation are submitted
C8_Witness ==
    /\ PaymentComplete /\ ~HasPcq /\ Returned
    /\ TextOf(Message) = <<"/premium">>
    /\ \E i \in InvoiceCalls : calls[i].status = "rejected"
    /\ OneConfirmation /\ Cardinality(Notices) = 1

(* C9 as stated: a message whose text is empty or absent produces no       *)
(* command action: no invoice call, and no send other than the payment     *)
(* confirmation.                                                           *)
C9_NoActionOnEmptyText ==
    (IsJson /\ HasMessage /\ TextOf(Message) = <<>>) =>
        /\ InvoiceCalls = {}
        /\ \A i \in DOMAIN spawned : spawned[i].text = SuccessMessage

(* C10 as stated: two invoice requests issued within the same second for   *)
(* the same user and product carry distinct payload strings.               *)
C10_DistinctPayloads ==
    \A i, j \in DOMAIN gcalls :
        ( /\ i < j
          /\ gcalls[i].payload[1] = gcalls[j].payload[1]
          /\ gcalls[i].payload[2] = gcalls[j].payload[2]
          /\ IntTime(gcalls[i].at) = IntTime(gcalls[j].at) )
        => gcalls[i].payload # gcalls[j].payload

----------------------------------------------------------------------------
(* What the claims about /get_invoice speak of *)

\* the JSON object of the current request, the empty object for a null body
InvoiceData == IF gdata.kind = "json" THEN gdata.json ELSE EmptyObj
\* the initData string as the client sent it, empty when the key is absent
SentInitData == Get(InvoiceData, "initData", <<>>)
IsBlank(s) == \A k \in DOMAIN s : s[k] = Blank
\* the fields of a query string that are a user field holding an object
\* with an id
UserFields(s) ==
    {k \in DOMAIN s :
        /\ s[k] # Blank
        /\ QsFields[s[k]].key = "user"
        /\ QsFields[s[k]].kind = "object"
        /\ Has(QsFields[s[k]].value, "id")}
\* the outbound calls of the current request
OwnCalls == {i \in DOMAIN gcalls : gcalls[i].thread = greq}
InvoiceReturned == gpc = "done"
\* the response is a JSON error object with this status
JsonError(status) ==
    /\ gresp.status = status
    /\ DOMAIN gresp.body = {"error"}

(* C11: a request whose body is JSON and whose initData is missing, empty  *)
(* or blank is answered with a 400 JSON error, and no outbound call is     *)
(* ever issued for it.                                                     *)
C11_MissingInitData ==
    (gdata.kind \in {"json", "null"} /\ IsBlank(SentInitData)) =>
        /\ OwnCalls = {}
        /\ gpc # "creating"
        /\ InvoiceReturned => JsonError(400)

\* the second request names a product but has no initData: it is answered
\* 400 and the only call in the log is the first request's
C11_Witness ==
    /\ gdata.kind = "json"
    /\ Has(gdata.json, "product") /\ ~Has(gdata.json, "initData")
    /\ InvoiceReturned /\ JsonError(400)
    /\ greq = 2 /\ Len(gcalls) = 1 /\ OwnCalls = {}

\* the request proceeded as the anonymous user: one createInvoiceLink call
\* with id 0 in its payload, and the response is that of the call's outcome
Anonymous ==
    /\ Cardinality(OwnCalls) = 1
    /\ \A i \in OwnCalls :
        /\ gcalls[i].api = "createInvoiceLink"
        /\ gcalls[i].payload[2] = 0
        /\ gcalls[i].status \in Outcomes
        /\ gresp.status = 200 <=> gcalls[i].status = "ok"

(* C12 as stated: a request with a non-empty initData that has no user     *)
(* field, or whose user field cannot be parsed, has proceeded with the     *)
(* anonymous id 0 and issued createInvoiceLink when the handler returns.   *)
C12_Original ==
    ( /\ gdata.kind = "json"
      /\ SentInitData # <<>>
      /\ UserFields(SentInitData) = {}
      /\ InvoiceReturned )
    => Anonymous

(* C12 amended: a request whose initData is non-empty after trimming       *)
(* whitespace and has no user field, or a user field that cannot be parsed *)
(* or holds no id, is not failed for it: it issues one createInvoiceLink   *)
(* call with id 0 in the payload, and its response is that of the call.    *)
C12_AnonymousFallback ==
    ( /\ gdata.kind = "json"
      /\ ~IsBlank(SentInitData)
      /\ UserFields(SentInitData) = {} )
    => /\ Cardinality(OwnCalls) <= 1
       /\ \A i \in OwnCalls : gcalls[i].payload[2] = 0
       /\ gpc = "creating" => Cardinality(OwnCalls) = 1
       /\ InvoiceReturned => Anonymous

\* a user field that is no JSON: the link was created for user 0
C12_Witness ==
    /\ gdata.kind = "json"
    /\ SentInitData = <<"user=%7Bid">>
    /\ InvoiceReturned /\ gresp.status = 200
    /\ \E i \in OwnCalls : gcalls[i].payload[2] = 0

\* the user id a valid initData carries
CallerIds(s) == {QsFields[s[k]].value.id : k \in UserFields(s)}

(* C13: a request with a valid initData sends exactly one                  *)
(* createInvoiceLink call, whose payload embeds the caller's user id, and  *)
(* its response is fixed by the outcome of that call: 200 with a non-empty *)
(* invoice_url on success, a JSON error with status 400 on rejection, a    *)
(* JSON error with status 500 on a transport failure.                      *)
C13_OneInvoiceLink ==
    (gdata.kind = "json" /\ UserFields(SentInitData) # {}) =>
        /\ Cardinality(OwnCalls) <= 1
        /\ \A i \in OwnCalls :
            /\ gcalls[i].api = "createInvoiceLink"
            /\ gcalls[i].payload[2] \in CallerIds(SentInitData)
            /\ gcalls[i].payload[1] = Get(InvoiceData, "product", "premium_weekly")
        /\ gpc = "creating" =>
              /\ Cardinality(OwnCalls) = 1
              /\ gresp = NoResponse
        /\ InvoiceReturned =>
              /\ Cardinality(OwnCalls) = 1
              /\ \A i \in OwnCalls :
                  /\ gcalls[i].status = "ok" =>
                        /\ gresp.status = 200
                        /\ DOMAIN gresp.body = {"invoice_url"}
                        /\ gresp.body.invoice_url # ""
                  /\ gcalls[i].status = "rejected" => JsonError(400)
                  /\ gcalls[i].status = "error" => JsonError(500)
                  /\ gcalls[i].status \in Outcomes

\* the second request of user 2 was rejected by the gateway: one call of
\* its own with id 2 in the payload, and a 400 JSON error
C13_Witness ==
    /\ gdata.kind = "json" /\ InvoiceReturned
    /\ greq = 2 /\ Len(gcalls) = 2
    /\ \E i \in OwnCalls :
          gcalls[i].payload[2] = 2 /\ gcalls[i].status = "rejected"
    /\ JsonError(400)

----------------------------------------------------------------------------
(* What the claims about the message branch speak of *)

MessageCalls == CallsTo("sendMessage")

(* C14 as stated: the action of every command, /premium included, is       *)
(* executed asynchronously: every sendMessage and every sendInvoice call   *)
(* is issued by a background thread, and the handler is never blocked in   *)
(* such a call.                                                            *)
C14_AllAsynchronous ==
    /\ \A i \in MessageCalls \cup InvoiceCalls : calls[i].thread = "thread"
    /\ wpc # "invoicing"

\* the sends of the command branch: every submitted send but the payment
\* confirmation and the failure notice of /premium
CommandReplies ==
    {i \in DOMAIN spawned : spawned[i].text \notin {SuccessMessage, PaymentError}}
\* the one action of a command, aimed at the chat of the message: the
\* invoice call for /premium, the command's reply otherwise
ActionOf(command) ==
    IF command = "premium"
      THEN /\ CommandReplies = {}
           /\ Cardinality(InvoiceCalls) = 1
           /\ \A i \in InvoiceCalls : calls[i].target = Message.chat.id
      ELSE /\ InvoiceCalls = {}
           /\ Cardinality(CommandReplies) = 1
           /\ \A i \in CommandReplies :
                /\ spawned[i].chat_id = Message.chat.id
                /\ spawned[i].text =
                     Reply(command, Get(Message["from"], "first_name", "User"))

(* C15 as stated: when the handler has returned, a message with a          *)
(* non-empty text has triggered exactly one action aimed at its chat, and  *)
(* it is the action of the command that the text equals after removing     *)
(* leading and trailing whitespace.                                        *)
C15_TrimmedCommand ==
    (GoodMessage /\ ~HasPcq /\ Returned /\ TextOf(Message) # <<>>) =>
        ActionOf(Command(Strip(TextOf(Message))))

----------------------------------------------------------------------------
(* What the claim about the user cache speaks of *)

IsPrefix(s, t) == Len(s) <= Len(t) /\ s = SubSeq(t, 1, Len(s))
Send(chat_id, text) == [chat_id |-> chat_id, text |-> text]
\* the reply to a text, from the text and the sender's name in the message
ReplyTo(message) ==
    LET text == TextOf(message)
        name == Get(message["from"], "first_name", "User")
    IN  CASE text = <<"/start">> -> <<"welcome", name>>
          [] text = <<"/help">> -> <<"help_text">>
          [] text = <<"/paysupport">> -> <<"support_text">>
          [] OTHER -> <<"Thanks for your message!">>
\* the sends the handler of the current event submits, in order, from the
\* envelope and the outcome of its invoice call alone
CommandSends ==
    IF TextOf(Message) = <<"/premium">>
      THEN IF \E i \in InvoiceCalls : calls[i].status \in {"rejected", "error"}
             THEN <<Send(Message.chat.id, PaymentError)>>
             ELSE <<>>
      ELSE <<Send(Message.chat.id, ReplyTo(Message))>>
PaymentSends ==
    IF PaymentComplete THEN <<Send(Message.chat.id, SuccessMessage)>> ELSE <<>>
EventSends ==
    IF GoodMessage /\ ~HasPcq THEN CommandSends \o PaymentSends ELSE <<>>
\* each outbound call is fixed by the envelope, by the send it delivers and
\* by the clock
CallFixedByEvent(c) ==
    CASE c.api = "answerPreCheckoutQuery" ->
             /\ HasPcq
             /\ c.target = update.json.pre_checkout_query.id
             /\ c.payload = [ok |-> TRUE]
      [] c.api = "sendInvoice" ->
             /\ GoodMessage /\ ~HasPcq /\ TextOf(Message) = <<"/premium">>
             /\ c.target = Message.chat.id
             /\ c.payload = <<"premium_weekly", Message["from"].id, IntTime(c.at)>>
      [] c.api = "sendMessage" ->
             \E k \in DOMAIN spawned : Send(c.target, c.payload) = spawned[k]
      [] OTHER -> FALSE
\* responses, submitted sends and outbound calls are those the envelope and
\* the outcomes of the calls fix; the cache is no part of it
OutputsFixedByEvent ==
    /\ wresp = IF Returned THEN Success ELSE NoResponse
    /\ IsPrefix(spawned, EventSends)
    /\ (Returned /\ "CRITICAL WEBHOOK ERROR" \notin logs) => spawned = EventSends
    /\ \A i \in DOMAIN calls : CallFixedByEvent(calls[i])
    /\ Cardinality(MessageCalls) <= Len(spawned)
    /\ Cardinality(AnswerCalls) <= 1 /\ Cardinality(InvoiceCalls) <= 1
\* a step that changes the cache is the cache_user of the message branch,
\* which sets the sender's entry, or a restart
CacheWrittenByMessageBranch ==
    user_cache' # user_cache =>
        \/ /\ wpc = "priority2" /\ GoodMessage /\ ~HasPcq
           /\ cached'
           /\ DOMAIN user_cache' = DOMAIN user_cache \cup {Message["from"].id}
           /\ \A u \in DOMAIN user_cache :
                u # Message["from"].id => user_cache'[u] = user_cache[u]
        \/ /\ user_cache' = EmptyObj
           /\ wpc \in {"idle", "done"}
           /\ <<wpc, update, wresp, calls, threads, spawned, logs, cached>>'
                = <<wpc, update, wresp, calls, threads, spawned, logs, cached>>

(* C16: the user cache is advisory only. Whatever the cache holds when an  *)
(* event arrives (nothing, entries of earlier events, nothing again after  *)
(* a restart), the response, the sends submitted and the outbound calls of *)
(* the event are those fixed by the envelope and the outcomes of its       *)
(* calls; and the cache is changed by the message branch only.             *)
C16_CacheAdvisory ==
    /\ []OutputsFixedByEvent
    /\ [][CacheWrittenByMessageBranch]_vars

\* the handler of /start wrote the sender's entry, submitted the reply and
\* returned, the reply was delivered, and a restart then emptied the cache
C16_Witness ==
    /\ GoodMessage /\ ~HasPcq /\ Returned
    /\ TextOf(Message) = <<"/start">>
    /\ cached /\ user_cache = EmptyObj
    /\ spawned = EventSends
    /\ \E i \in MessageCalls : calls[i].status = "ok"

----------------------------------------------------------------------------
(* What the claims about failures speak of *)

\* the answer call of the current event has failed
AnswerFailed ==
    \E i \in AnswerCalls : calls[i].status \in {"rejected", "error"}
AnswerFailureLogs == {"Failed to answer pre-checkout", "Pre-checkout error"}

(* C17: when the answerPreCheckoutQuery call has failed, by rejection or   *)
(* by a transport failure, it stays the only outbound call of the event:   *)
(* no second answer, no send; answer_pre_checkout_query has logged the     *)
(* failure and returned False, so that the handler returned success by its *)
(* own return statement and not through its except clause.                 *)
C17_NoRetry ==
    AnswerFailed =>
        /\ Len(calls) = 1
        /\ spawned = <<>>
        /\ Returned /\ wresp = Success
        /\ logs \cap AnswerFailureLogs # {}
        /\ "CRITICAL WEBHOOK ERROR" \notin logs
        /\ \A outcome \in Outcomes \ {"ok"} : AnswerResult(outcome) = FALSE

\* the answer to an envelope that also carries a message raised: one call,
\* logged as a pre-checkout error
C17_Witness ==
    /\ HasPcq /\ HasMessage /\ Returned
    /\ Len(calls) = 1 /\ calls[1].status = "error"
    /\ "Pre-checkout error" \in logs
    /\ "CRITICAL WEBHOOK ERROR" \notin logs

\* the sendMessage calls that deliver the k-th submitted send
CallsOfSend(k) ==
    {i \in MessageCalls :
        calls[i].target = spawned[k].chat_id /\ calls[i].payload = spawned[k].text}
\* every send is delivered by at most one call, made by a background
\* thread, and every response given is the success acknowledgment
AtMostOnce ==
    /\ \A i \in MessageCalls :
          calls[i].thread = "thread" /\ \E k \in DOMAIN spawned : i \in CallsOfSend(k)
    /\ \A k \in DOMAIN spawned : Cardinality(CallsOfSend(k)) <= 1
    /\ wresp \in {NoResponse, Success}
\* a step in which a sendMessage call fails: the thread ends, and nothing
\* else changes but the log of that thread
DeliveryFails(i) ==
    /\ i \in DOMAIN calls /\ i \in DOMAIN calls'
    /\ calls[i].api = "sendMessage" /\ calls[i].status = "inflight"
    /\ calls'[i].status \in {"rejected", "error"}
Swallowed ==
    (\E i \in DOMAIN calls : DeliveryFails(i)) =>
        /\ <<wpc, wresp, update, spawned, cached, user_cache>>'
             = <<wpc, wresp, update, spawned, cached, user_cache>>
        /\ Len(calls') = Len(calls)
        /\ Len(threads') = Len(threads) - 1
        /\ \A j \in DOMAIN threads' : threads'[j].state # "started"
              \/ \E k \in DOMAIN threads : threads[k] = threads'[j]
        /\ logs' \subseteq logs \cup {"Send message error"}

(* C18: a send submitted to the notifier is fire-and-forget. The step in   *)
(* which its sendMessage call fails ends the thread and changes neither    *)
(* the handler's position nor its response, starts no thread and issues no *)
(* call; every send is delivered by at most one call of a background       *)
(* thread; and the handler answers success whatever became of the send.    *)
C18_FireAndForget ==
    /\ []AtMostOnce
    /\ [][Swallowed]_vars

\* the reply to /help could not be delivered: the send raised in its
\* thread, the thread is gone, and the handler has answered success
C18_Witness ==
    /\ GoodMessage /\ ~HasPcq /\ Returned /\ wresp = Success
    /\ TextOf(Message) = <<"/help">>
    /\ Len(calls) = 1 /\ calls[1].api = "sendMessage"
    /\ calls[1].status = "error"
    /\ "Send message error" \in logs
    /\ threads = <<>>

(* C19: for an envelope that contains a pre-checkout query the only        *)
(* outbound call is the one answerPreCheckoutQuery call: no send is        *)
(* submitted, no sendMessage and no sendInvoice is issued, and the user    *)
(* cache is never changed while the envelope is handled, also when the     *)
(* envelope carries a message or a successful_payment record.              *)
C19_PreCheckoutFrame ==
    /\ [](HasPcq =>
            /\ Len(calls) <= 1
            /\ \A i \in DOMAIN calls : calls[i].api = "answerPreCheckoutQuery"
            /\ spawned = <<>>
            /\ ~cached)
    /\ [][(HasPcq /\ update' = update) => user_cache' = user_cache]_vars

\* a pre-checkout query with a /premium message and a payment record: the
\* handler has returned after the one answer call
C19_Witness ==
    /\ HasPcq /\ PaymentComplete /\ Returned
    /\ TextOf(Message) = <<"/premium">>
    /\ Len(calls) = 1 /\ calls[1].api = "answerPreCheckoutQuery"
    /\ calls[1].status = "ok"
    /\ spawned = <<>> /\ ~cached

\* the envelope is a message envelope whose message lacks the chat id or
\* the sender id
MalformedMessage == HasMessage /\ ~HasPcq /\ MessageRaises(Message)

====
